---- MODULE Spec2Model ----
(***************************************************************************)
(* The inline token-insertion editor of public/TokenEditor.js as a state   *)
(* machine.  The buffer is the child list of the contentEditable element   *)
(* (text nodes and non-editable token-tag spans), the caret is the         *)
(* collapsed selection range, and the remaining variables are the React    *)
(* state of the component.  Every action is one user event: the browser's  *)
(* default edit (when the handler does not prevent it), the handler's      *)
(* state updates, and the effect that resets selectedIndex after a render  *)
(* in which filter or activeCategory changed.                              *)
(*                                                                         *)
(* Strings are sequences of one-character strings.  Offsets are 0-based    *)
(* as in the DOM; sequences are 1-based, so the character before offset o  *)
(* is text[o].  A node is named by its index in the child list; index 0 is *)
(* the editor element itself (as a selection container) or, in             *)
(* slashPosition, a node that is no longer in the document.                *)
(***************************************************************************)
EXTENDS Integers, Sequences, FiniteSets, TLC

VARIABLES
  children,       \* editorRef.current.childNodes
  sel,            \* window.getSelection().getRangeAt(0): [node, offset]
  showMenu,       \* useState(false)
  activeCategory, \* useState(null): a category id, or NoCategory
  filter,         \* useState('')
  selectedIndex,  \* useState(0)
  slashPosition,  \* useState(null): [node, offset], or NoSlash
  tokens,         \* the `tokens` prop: the catalog snapshot of this render
  isLoadingTokens,\* the `isLoadingTokens` prop
  db,             \* server.js: db.sessions
  dataFile,       \* server.js: the sessions written to DB_FILE
  reqBody,        \* server.js: req.body (or req.params) of the last request
  resJson,        \* server.js: the session in the body of the last response
  last            \* history: the event that produced this state

vars == <<children, sel, showMenu, activeCategory, filter, selectedIndex,
          slashPosition, tokens, isLoadingTokens, db, dataFile, reqBody,
          resJson, last>>

\* What no handler of the editor sets: its props and the server's store.
environment == <<tokens, isLoadingTokens, db, dataFile, reqBody, resJson>>

\* ------------------------------------------------------------------ bounds

\* Typing stops when the buffer holds this many characters and tags; a text
\* node never holds more characters than this.
MaxChars == 3

\* Child nodes of the editor element, at most.
MaxNodes == 3

\* The keys the user types: the trigger, the space, and a letter.
Keys == {"/", " ", "x"}

\* ------------------------------------------------------------------ strings

Min(a, b) == IF a < b THEN a ELSE b

Max(a, b) == IF a > b THEN a ELSE b

\* String.prototype.toLowerCase, on the letters the model uses.
LowerChar(c) ==
  CASE c = "A" -> "a"
    [] c = "B" -> "b"
    [] c = "C" -> "c"
    [] c = "S" -> "s"
    [] c = "T" -> "t"
    [] c = "X" -> "x"
    [] OTHER -> c

ToLowerCase(s) == [i \in 1..Len(s) |-> LowerChar(s[i])]

\* String.prototype.includes
Includes(s, f) ==
  \E i \in 0..(Len(s) - Len(f)) : SubSeq(s, i + 1, i + Len(f)) = f

\* String.prototype.substring(a, b): both ends are clamped to [0, length] and
\* swapped when a > b.
Substring(s, a, b) ==
  LET ca == Min(Max(a, 0), Len(s))
      cb == Min(Max(b, 0), Len(s))
  IN  SubSeq(s, Min(ca, cb) + 1, Max(ca, cb))

\* String.prototype.substring(a): from a to the end.
SubstringFrom(s, a) == Substring(s, a, Len(s))

\* String.prototype.split('/')
RECURSIVE Split(_)
Split(s) ==
  IF \A i \in 1..Len(s) : s[i] # "/"
    THEN <<s>>
    ELSE LET k == CHOOSE i \in 1..Len(s) :
                    s[i] = "/" /\ \A j \in 1..(i - 1) : s[j] # "/"
         IN  <<SubSeq(s, 1, k - 1)>> \o Split(SubSeq(s, k + 1, Len(s)))

\* UTF-16 code units of the characters the model uses (Array.prototype.sort
\* without a comparator orders strings by code unit).
CodeUnit(c) ==
  CASE c = " " -> 32
    [] c = "/" -> 47
    [] c = "A" -> 65
    [] c = "B" -> 66
    [] c = "C" -> 67
    [] c = "S" -> 83
    [] c = "T" -> 84
    [] c = "X" -> 88
    [] c = "_" -> 95
    [] c = "a" -> 97
    [] c = "b" -> 98
    [] c = "c" -> 99
    [] c = "e" -> 101
    [] c = "g" -> 103
    [] c = "i" -> 105
    [] c = "k" -> 107
    [] c = "l" -> 108
    [] c = "n" -> 110
    [] c = "o" -> 111
    [] c = "p" -> 112
    [] c = "r" -> 114
    [] c = "s" -> 115
    [] c = "t" -> 116
    [] c = "u" -> 117
    [] c = "x" -> 120
    [] OTHER -> 0

\* a < b in code-unit order
RECURSIVE CodeUnitLess(_, _)
CodeUnitLess(a, b) ==
  IF Len(b) = 0 THEN FALSE
  ELSE IF Len(a) = 0 THEN TRUE
  ELSE IF CodeUnit(Head(a)) # CodeUnit(Head(b))
    THEN CodeUnit(Head(a)) < CodeUnit(Head(b))
  ELSE CodeUnitLess(Tail(a), Tail(b))

\* String.prototype.localeCompare(b) < 0 in the root collation: letters are
\* compared without case first, and a lower-case letter precedes its upper-case
\* form when nothing else differs.
LocaleLess(a, b) ==
  \/ CodeUnitLess(ToLowerCase(a), ToLowerCase(b))
  \/ /\ ToLowerCase(a) = ToLowerCase(b)
     /\ CodeUnitLess(b, a)

\* ------------------------------------------------------------------ catalog

\* null
Null == <<"null">>

NoCategory == "null"

\* The token lists of the fetched catalog.
ColourTokens ==
  << [id |-> "c1", name |-> <<"t", "x">>, value |-> "#111111"],
     [id |-> "c2", name |-> <<"a", "/", "x">>, value |-> "#222222"] >>

TypographyTokens ==
  << [id |-> "t1", name |-> <<"T">>, value |-> "Inter, 14px, weight 400"] >>

SpacingTokens == << >>

\* The `tokens` prop once the catalog is fetched, and while it is not.
LoadedTokens == [colors |-> ColourTokens, typography |-> TypographyTokens,
                 spacing |-> SpacingTokens]

NoTokens == [colors |-> << >>, typography |-> << >>, spacing |-> << >>]

\* The categories array a render builds from its snapshot.
CategoriesOf(snapshot) ==
  << [id |-> "colour",
      label |-> <<"C","o","l","o","u","r"," ","t","o","k","e","n","s">>,
      tokens |-> snapshot.colors],
     [id |-> "text",
      label |-> <<"T","e","x","t"," ","t","o","k","e","n","s">>,
      tokens |-> snapshot.typography],
     [id |-> "spacing",
      label |-> <<"S","p","a","c","i","n","g"," ","t","o","k","e","n","s">>,
      tokens |-> snapshot.spacing] >>

categories == CategoriesOf(tokens)

CategoryIds == {"colour", "text", "spacing"}

\* The object activeCategory holds: the row that was selected, built from
\* the snapshot of that render.  The snapshot changes once, from empty to
\* fetched, and a row is offered only when it has tokens, so the row is a row
\* of the current snapshot.
CategoryById(id) ==
  LET rows == categories
  IN  rows[CHOOSE i \in 1..Len(rows) : rows[i].id = id]

\* The same row, of the fetched catalog.
LoadedCategory(id) ==
  LET rows == CategoriesOf(LoadedTokens)
  IN  rows[CHOOSE i \in 1..Len(rows) : rows[i].id = id]

\* ------------------------------------------------------------------ normalizer

parseTokenName(token) ==
  LET name  == token.name
      parts == Split(name)
  IN  IF Len(parts) = 1
        THEN [groups |-> << >>, displayName |-> name]
        ELSE [groups |-> SubSeq(parts, 1, Len(parts) - 1),
              displayName |-> parts[Len(parts)]]

\* The key of the implicit subgroup of a one-level name.
NoneKey == <<"_", "_", "n", "o", "n", "e", "_", "_">>

\* Object.keys(groupMap).sort(): the group names in code-unit order.
RECURSIVE SortGroupNames(_)
SortGroupNames(S) ==
  IF S = {} THEN << >>
  ELSE LET m == CHOOSE x \in S : \A y \in S \ {x} : CodeUnitLess(x, y)
       IN  <<m>> \o SortGroupNames(S \ {m})

\* The comparator of the subgroup names: '__none__' first, then localeCompare.
SubgroupLess(a, b) ==
  IF a = NoneKey THEN TRUE
  ELSE IF b = NoneKey THEN FALSE
  ELSE LocaleLess(a, b)

\* Object.keys(group.subgroups).sort(comparator)
RECURSIVE SortSubgroupNames(_)
SortSubgroupNames(S) ==
  IF S = {} THEN << >>
  ELSE LET m == CHOOSE x \in S : \A y \in S \ {x} : SubgroupLess(x, y)
       IN  <<m>> \o SortSubgroupNames(S \ {m})

GroupKey(token) == parseTokenName(token).groups[1]

SubgroupKey(token) ==
  LET groups == parseTokenName(token).groups
  IN  IF Len(groups) = 1 THEN NoneKey ELSE groups[2]

IsUngrouped(token) == Len(parseTokenName(token).groups) = 0

\* The property names every object inherits from Object.prototype, among the
\* segments of the names the model uses.
InheritedKeys == {<<"c", "o", "n", "s", "t", "r", "u", "c", "t", "o", "r">>}

\* The forEach callback of groupTokens throws TypeError on this token: the
\* read groupMap[groupName] (or subgroups[subgroupName]) finds the inherited
\* property, which is truthy, so no bucket is created, and the read of
\* .subgroups[...] on it (or the call of its .push) fails.
TokenThrows(token) ==
  LET groups == parseTokenName(token).groups
  IN  /\ Len(groups) >= 1
      /\ \/ groups[1] \in InheritedKeys
         \/ Len(groups) >= 2 /\ groups[2] \in InheritedKeys

\* groupTokens(tokenList) throws instead of returning a tree.
groupTokensThrows(tokenList) ==
  \E i \in 1..Len(tokenList) : TokenThrows(tokenList[i])

InGroup(g, t) == ~IsUngrouped(t) /\ GroupKey(t) = g

\* A bucket filled from the end of the list.
BucketReversed(tokenList, g, sg) ==
  LET Here(t) == InGroup(g, t) /\ SubgroupKey(t) = sg
      bucket  == SelectSeq(tokenList, Here)
  IN  [i \in 1..Len(bucket) |-> bucket[Len(bucket) + 1 - i]]

\* groupMap[g].subgroups[sg] after the forEach: the tokens pushed under the
\* two keys, in list order.
Bucket(tokenList, g, sg) ==
  LET Here(t) == InGroup(g, t) /\ SubgroupKey(t) = sg
  IN  SelectSeq(tokenList, Here)

\* The tree groupTokens returns (when it returns: see groupTokensThrows).
groupTokens(tokenList) ==
  LET idx       == 1..Len(tokenList)
      ungrouped == SelectSeq(tokenList, IsUngrouped)
      groupKeys == {GroupKey(tokenList[i]) : i \in {j \in idx : ~IsUngrouped(tokenList[j])}}
      SubKeys(g)          == {SubgroupKey(tokenList[i]) :
                                i \in {j \in idx : InGroup(g, tokenList[j])}}
      Subgroups(g)        == LET names == SortSubgroupNames(SubKeys(g))
                             IN  [k \in 1..Len(names) |->
                                    [subgroup |-> IF names[k] = NoneKey THEN Null
                                                  ELSE names[k],
                                     tokens |-> Bucket(tokenList, g, names[k])]]
      groupNames == SortGroupNames(groupKeys)
      grouped    == [k \in 1..Len(groupNames) |->
                       [group |-> groupNames[k],
                        subgroups |-> Subgroups(groupNames[k]),
                        tokens |-> << >>]]
  IN  IF Len(ungrouped) > 0
        THEN grouped \o << [group |-> Null, subgroups |-> << >>, tokens |-> ungrouped] >>
        ELSE grouped

RECURSIVE Concat(_)
Concat(ss) == IF Len(ss) = 0 THEN << >> ELSE Head(ss) \o Concat(Tail(ss))

\* flat, as built by the useMemo over groupedTokens.
Flatten(grouped) ==
  Concat([k \in 1..Len(grouped) |->
            IF grouped[k].group = Null
              THEN grouped[k].tokens
              ELSE Concat([m \in 1..Len(grouped[k].subgroups) |->
                             grouped[k].subgroups[m].tokens])])

\* renderTokenItem(token, flatIndex): the row of a token, with the index it
\* compares with selectedIndex and sets on mouseenter.
TokenItems(tokenList, flatIndex) ==
  [i \in 1..Len(tokenList) |->
     [kind |-> "item", title |-> << >>, token |-> <<tokenList[i]>>,
      flatIndex |-> flatIndex + i - 1]]

\* A 'token-group-title' or 'token-subgroup-title' element.
TitleElement(kind, title) ==
  [kind |-> kind, title |-> title, token |-> << >>, flatIndex |-> -1]

\* The forEach over group.subgroups, from subgroup m on, with the counter at
\* flatIndex: the subtitle when the subgroup has a name, then its rows.
RECURSIVE RenderSubgroups(_, _, _)
RenderSubgroups(subgroups, m, flatIndex) ==
  IF m > Len(subgroups) THEN << >>
  ELSE (IF subgroups[m].subgroup \notin {Null, << >>}
          THEN <<TitleElement("subgroup-title", subgroups[m].subgroup)>>
          ELSE << >>)
         \o TokenItems(subgroups[m].tokens, flatIndex)
         \o RenderSubgroups(subgroups, m + 1, flatIndex + Len(subgroups[m].tokens))

\* The tokens an entry of the tree holds.
EntrySize(entry) == Len(Flatten(<<entry>>))

\* The forEach over groupedTokens, from entry k on, with the counter at
\* flatIndex.
RECURSIVE RenderGroups(_, _, _)
RenderGroups(grouped, k, flatIndex) ==
  IF k > Len(grouped) THEN << >>
  ELSE (IF grouped[k].group = Null
          THEN TokenItems(grouped[k].tokens, flatIndex)
          ELSE <<TitleElement("group-title", grouped[k].group)>>
                 \o RenderSubgroups(grouped[k].subgroups, 1, flatIndex))
         \o RenderGroups(grouped, k + 1, flatIndex + EntrySize(grouped[k]))

\* ------------------------------------------------------------------ menu items

\* The callback of activeCategory.tokens.filter in getFilteredTokens.
TokensMatching(tokenList, f) ==
  LET Match(t) == Includes(ToLowerCase(t.name), ToLowerCase(f))
  IN  SelectSeq(tokenList, Match)

getFilteredTokens ==
  IF activeCategory = NoCategory THEN << >>
  ELSE TokensMatching(CategoryById(activeCategory).tokens, filter)

\* currentItems at top level without the test for an empty category.
currentCategoriesWithEmpty ==
  LET Shown(c) == Includes(ToLowerCase(c.label), ToLowerCase(filter))
  IN  SelectSeq(categories, Shown)

\* currentItems at top level, the label compared as it is written.
currentCategoriesCaseSensitive ==
  LET Shown(c) == /\ Len(c.tokens) # 0
                  /\ Includes(c.label, filter)
  IN  SelectSeq(categories, Shown)

\* currentItems at top level: the categories that have tokens and match.
currentCategories ==
  LET Shown(c) == /\ Len(c.tokens) # 0
                  /\ Includes(ToLowerCase(c.label), ToLowerCase(filter))
  IN  SelectSeq(categories, Shown)

groupedTokens ==
  IF activeCategory # NoCategory THEN groupTokens(getFilteredTokens) ELSE << >>

\* The texts a filter can hold: a text node never holds more than MaxChars.
FilterTexts == UNION {[1..n -> Keys] : n \in 0..MaxChars}

\* flattenedTokens for every category and filter text, computed once.
FlattenedMemo ==
  [c \in CategoryIds |->
     [f \in FilterTexts |->
        Flatten(groupTokens(TokensMatching(LoadedCategory(c).tokens, f)))]]

flattenedTokens ==
  IF activeCategory # NoCategory /\ tokens = LoadedTokens /\ filter \in FilterTexts
    THEN FlattenedMemo[activeCategory][filter]
    ELSE Flatten(groupedTokens)

\* renderGroupedTokens(): the elements of the dropdown inside a category.
renderGroupedTokens ==
  IF activeCategory # NoCategory THEN RenderGroups(groupedTokens, 1, 0) ELSE << >>

\* The render throws: groupTokens(currentItems) is called in the component
\* body whenever a category is active.
RenderThrows ==
  activeCategory # NoCategory /\ groupTokensThrows(getFilteredTokens)

\* currentItems
currentItems ==
  IF activeCategory # NoCategory THEN getFilteredTokens ELSE currentCategories

\* The dropdown holds the 'token-loading' element: at top level, or within a
\* category.
ShowsLoading ==
  /\ showMenu
  /\ \/ isLoadingTokens /\ Len(currentItems) = 0 /\ activeCategory = NoCategory
     \/ isLoadingTokens /\ activeCategory # NoCategory /\ Len(flattenedTokens) = 0

\* The dropdown holds the 'token-empty' element.
ShowsEmpty ==
  /\ showMenu
  /\ ~isLoadingTokens /\ Len(currentItems) = 0 /\ activeCategory = NoCategory

\* itemCount of handleKeyDown
itemCount ==
  IF activeCategory # NoCategory THEN Len(flattenedTokens)
  ELSE Len(currentCategories)

\* ------------------------------------------------------------------ buffer

\* document.createTextNode(s)
TextNode(s) == [kind |-> "text", text |-> s, type |-> "", value |-> << >>]

\* The span built by insertToken: className 'token-tag', contentEditable
\* 'false', dataset.type = category.id, dataset.value = textContent = the full
\* token name.
TagNode(category, token) ==
  [kind |-> "tag", text |-> << >>, type |-> category.id, value |-> token.name]

IsText(n) == n.kind = "text"

\* classList.contains('token-tag')
IsTag(n) == n.kind = "tag"

\* slashPosition === null
NoSlash == [node |-> -1, offset |-> 0]

Caret(n, o) == [node |-> n, offset |-> o]

RECURSIVE TotalChars(_)
TotalChars(kids) ==
  IF Len(kids) = 0 THEN 0 ELSE Len(Head(kids).text) + TotalChars(Tail(kids))

TagCount(kids) == Cardinality({i \in 1..Len(kids) : IsTag(kids[i])})

\* Node.remove() of child j
RemoveNode(kids, j) == SubSeq(kids, 1, j - 1) \o SubSeq(kids, j + 1, Len(kids))

\* The boundary point the browser reports for the gap after child k: inside
\* an adjacent text node when there is one, at the editor element otherwise.
Canon(kids, k) ==
  IF k >= 1 /\ IsText(kids[k]) THEN Caret(k, Len(kids[k].text))
  ELSE IF k < Len(kids) /\ IsText(kids[k + 1]) THEN Caret(k + 1, 0)
  ELSE Caret(0, k)

\* A live range after child j is removed.
SelAfterRemove(kids, caret, j) ==
  IF caret.node = 0
    THEN Caret(0, IF caret.offset >= j THEN caret.offset - 1 ELSE caret.offset)
  ELSE IF caret.node > j THEN Caret(caret.node - 1, caret.offset)
  ELSE IF caret.node = j THEN Canon(RemoveNode(kids, j), j - 1)
  ELSE caret

\* The node slashPosition refers to, after child j is removed: the same node
\* under its new index, or the node out of the document.
SlashAfterRemove(kids, slash, j) ==
  IF slash = NoSlash \/ slash.node = 0 \/ slash.node < j THEN slash
  ELSE IF slash.node = j
    THEN [node |-> 0, offset |-> slash.offset]
  ELSE [slash EXCEPT !.node = slash.node - 1]

\* The places the user can put the caret (arrow keys, Home, End, a click).
CaretPositions(kids) ==
  UNION {{Caret(i, o) : o \in 0..Len(kids[i].text)} :
           i \in {j \in 1..Len(kids) : IsText(kids[j])}}
    \cup {Canon(kids, k) : k \in 0..Len(kids)}

\* ------------------------------------------------------------------ render

\* Commit whose effect depends on filter alone.
CommitResetOnFilterOnly(newShow, newCategory, newFilter, newIndex, newSlash) ==
  /\ showMenu' = newShow
  /\ activeCategory' = newCategory
  /\ filter' = newFilter
  /\ slashPosition' = newSlash
  /\ selectedIndex' = IF newFilter # filter THEN 0 ELSE newIndex

\* Commit without the effect that resets selectedIndex.
CommitNoReset(newShow, newCategory, newFilter, newIndex, newSlash) ==
  /\ showMenu' = newShow
  /\ activeCategory' = newCategory
  /\ filter' = newFilter
  /\ slashPosition' = newSlash
  /\ selectedIndex' = newIndex

\* The state updates of one handler, then the effect
\*   useEffect(() => setSelectedIndex(0), [filter, activeCategory]).
Commit(newShow, newCategory, newFilter, newIndex, newSlash) ==
  /\ showMenu' = newShow
  /\ activeCategory' = newCategory
  /\ filter' = newFilter
  /\ slashPosition' = newSlash
  /\ selectedIndex' = IF newFilter # filter \/ newCategory # activeCategory
                        THEN 0 ELSE newIndex

\* The React state a handler leaves alone.
Keep == [showMenu |-> showMenu, activeCategory |-> activeCategory,
         filter |-> filter, slashPosition |-> slashPosition]

\* ------------------------------------------------------------------ handleInput

\* handleInput without the test for a space after the trigger.
handleInputNoSpaceCheck(kids, caret, slash) ==
  IF caret.node = 0
    THEN [Keep EXCEPT !.slashPosition = slash]
  ELSE
    LET text   == kids[caret.node].text
        offset == caret.offset
    IN  IF offset >= 1 /\ text[offset] = "/"
          THEN [showMenu |-> TRUE, activeCategory |-> NoCategory, filter |-> << >>,
                slashPosition |-> [node |-> caret.node, offset |-> offset - 1]]
        ELSE IF showMenu /\ slash # NoSlash
          THEN LET textAfterSlash == Substring(text, slash.offset + 1, offset)
               IN  IF offset <= slash.offset
                     THEN [showMenu |-> FALSE, activeCategory |-> NoCategory,
                           filter |-> << >>, slashPosition |-> slash]
                     ELSE [Keep EXCEPT !.filter = textAfterSlash,
                                       !.slashPosition = slash]
        ELSE [Keep EXCEPT !.slashPosition = slash]

\* handleInput whose trigger branch leaves activeCategory as it is.
handleInputTriggerKeepsCategory(kids, caret, slash) ==
  IF caret.node = 0
    THEN [Keep EXCEPT !.slashPosition = slash]
  ELSE
    LET text   == kids[caret.node].text
        offset == caret.offset
    IN  IF offset >= 1 /\ text[offset] = "/"
          THEN [showMenu |-> TRUE, activeCategory |-> activeCategory,
                filter |-> << >>,
                slashPosition |-> [node |-> caret.node, offset |-> offset - 1]]
        ELSE IF showMenu /\ slash # NoSlash
          THEN LET textAfterSlash == Substring(text, slash.offset + 1, offset)
               IN  IF Includes(textAfterSlash, <<" ">>) \/ offset <= slash.offset
                     THEN [showMenu |-> FALSE, activeCategory |-> NoCategory,
                           filter |-> << >>, slashPosition |-> slash]
                     ELSE [Keep EXCEPT !.filter = textAfterSlash,
                                       !.slashPosition = slash]
        ELSE [Keep EXCEPT !.slashPosition = slash]

\* handleInput whose cancellation leaves activeCategory as it is.
handleInputKeepsCategory(kids, caret, slash) ==
  IF caret.node = 0
    THEN [Keep EXCEPT !.slashPosition = slash]
  ELSE
    LET text   == kids[caret.node].text
        offset == caret.offset
    IN  IF offset >= 1 /\ text[offset] = "/"
          THEN [showMenu |-> TRUE, activeCategory |-> NoCategory, filter |-> << >>,
                slashPosition |-> [node |-> caret.node, offset |-> offset - 1]]
        ELSE IF showMenu /\ slash # NoSlash
          THEN LET textAfterSlash == Substring(text, slash.offset + 1, offset)
               IN  IF Includes(textAfterSlash, <<" ">>) \/ offset <= slash.offset
                     THEN [showMenu |-> FALSE, activeCategory |-> activeCategory,
                           filter |-> << >>, slashPosition |-> slash]
                     ELSE [Keep EXCEPT !.filter = textAfterSlash,
                                       !.slashPosition = slash]
        ELSE [Keep EXCEPT !.slashPosition = slash]

\* handleInput whose trigger branch opens the menu without recording the
\* anchor.
handleInputNoAnchor(kids, caret, slash) ==
  IF caret.node = 0
    THEN [Keep EXCEPT !.slashPosition = slash]
  ELSE
    LET text   == kids[caret.node].text
        offset == caret.offset
    IN  IF offset >= 1 /\ text[offset] = "/"
          THEN [showMenu |-> TRUE, activeCategory |-> NoCategory, filter |-> << >>,
                slashPosition |-> slash]
        ELSE IF showMenu /\ slash # NoSlash
          THEN LET textAfterSlash == Substring(text, slash.offset + 1, offset)
               IN  IF Includes(textAfterSlash, <<" ">>) \/ offset <= slash.offset
                     THEN [showMenu |-> FALSE, activeCategory |-> NoCategory,
                           filter |-> << >>, slashPosition |-> slash]
                     ELSE [Keep EXCEPT !.filter = textAfterSlash,
                                       !.slashPosition = slash]
        ELSE [Keep EXCEPT !.slashPosition = slash]

\* The state handleInput sets, for the buffer and caret the edit produced.
\* `slash` is slashPosition, under the node's index in the edited buffer.
handleInput(kids, caret, slash) ==
  IF caret.node = 0
    THEN [Keep EXCEPT !.slashPosition = slash]
  ELSE
    LET text   == kids[caret.node].text
        offset == caret.offset
    IN  IF offset >= 1 /\ text[offset] = "/"
          THEN [showMenu |-> TRUE, activeCategory |-> NoCategory, filter |-> << >>,
                slashPosition |-> [node |-> caret.node, offset |-> offset - 1]]
        ELSE IF showMenu /\ slash # NoSlash
          THEN LET textAfterSlash == Substring(text, slash.offset + 1, offset)
               IN  IF Includes(textAfterSlash, <<" ">>) \/ offset <= slash.offset
                     THEN [showMenu |-> FALSE, activeCategory |-> NoCategory,
                           filter |-> << >>, slashPosition |-> slash]
                     ELSE [Keep EXCEPT !.filter = textAfterSlash,
                                       !.slashPosition = slash]
        ELSE [Keep EXCEPT !.slashPosition = slash]

\* The input event after a default edit.
FireInput(kids, caret, slash) ==
  \E h \in {handleInput(kids, caret, slash)} :
    /\ children' = kids
    /\ sel' = caret
    /\ Commit(h.showMenu, h.activeCategory, h.filter, selectedIndex,
              h.slashPosition)

\* The branch handleInput takes (history only).
InputBranch(kids, caret, slash) ==
  IF caret.node = 0 THEN "element"
  ELSE IF caret.offset >= 1 /\ kids[caret.node].text[caret.offset] = "/" THEN "trigger"
  ELSE IF showMenu /\ slash # NoSlash
    THEN IF handleInput(kids, caret, slash).showMenu THEN "filter" ELSE "cancel"
  ELSE "idle"

\* The caret is in the text node slashPosition names.
InAnchorRun == slashPosition # NoSlash /\ slashPosition.node # 0
               /\ sel.node = slashPosition.node

\* No callback of the parent was invoked.
NoCall == [fn |-> "none", text |-> << >>, html |-> << >>]

Event(op, key, res) == [op |-> op, key |-> key, res |-> res, call |-> NoCall]

\* ------------------------------------------------------------------ default edits

\* The browser's insertion of the typed character at the caret: into the text
\* node that holds the caret or, with the caret at the editor element, into
\* the text node next to that gap; into a new text node when there is none.
InsertChar(kids, caret, slash, c) ==
  LET at == IF caret.node = 0 THEN Canon(kids, caret.offset) ELSE caret
  IN  IF at.node # 0
        THEN LET text == kids[at.node].text
             IN  [children |-> [kids EXCEPT ![at.node].text =
                                  SubSeq(text, 1, at.offset) \o <<c>>
                                    \o SubSeq(text, at.offset + 1, Len(text))],
                  sel |-> Caret(at.node, at.offset + 1),
                  slash |-> slash]
        ELSE LET k == at.offset
             IN  [children |-> SubSeq(kids, 1, k) \o <<TextNode(<<c>>)>>
                                 \o SubSeq(kids, k + 1, Len(kids)),
                  sel |-> Caret(k + 1, 1),
                  slash |-> IF slash # NoSlash /\ slash.node >= k + 1
                              THEN [slash EXCEPT !.node = slash.node + 1]
                              ELSE slash]

\* What a default backward delete at the caret removes: the character before
\* the caret, or the token tag before it, empty text nodes being skipped.
RECURSIVE ScanBack(_, _)
ScanBack(kids, j) ==
  IF j = 0 THEN [kind |-> "none", node |-> 0, pos |-> 0]
  ELSE IF IsTag(kids[j]) THEN [kind |-> "tag", node |-> j, pos |-> 0]
  ELSE IF Len(kids[j].text) > 0
    THEN [kind |-> "char", node |-> j, pos |-> Len(kids[j].text)]
  ELSE ScanBack(kids, j - 1)

BackTarget(kids, caret) ==
  IF caret.node # 0 /\ caret.offset > 0
    THEN [kind |-> "char", node |-> caret.node, pos |-> caret.offset]
    ELSE ScanBack(kids, IF caret.node = 0 THEN caret.offset ELSE caret.node - 1)

\* The outcomes of the browser's backward delete (none when nothing precedes
\* the caret).  A non-editable tag goes as a whole; a text node emptied by the
\* delete is dropped from the document.
DeleteBackward(kids, caret, slash) ==
  LET t == BackTarget(kids, caret)
  IN  IF t.kind = "none" THEN {}
      ELSE IF t.kind = "tag"
        THEN {[children |-> RemoveNode(kids, t.node),
               sel |-> SelAfterRemove(kids, caret, t.node),
               slash |-> SlashAfterRemove(kids, slash, t.node)]}
      ELSE
        LET text  == kids[t.node].text
            cut   == SubSeq(text, 1, t.pos - 1) \o SubSeq(text, t.pos + 1, Len(text))
            kids1 == [kids EXCEPT ![t.node].text = cut]
        IN  IF Len(cut) > 0
              THEN {[children |-> kids1, sel |-> Caret(t.node, t.pos - 1),
                     slash |-> slash]}
              ELSE {[children |-> RemoveNode(kids1, t.node),
                     sel |-> Canon(RemoveNode(kids1, t.node), t.node - 1),
                     slash |-> SlashAfterRemove(kids1, slash, t.node)]}

\* ------------------------------------------------------------------ insertToken

\* insertToken without the test of slashPosition.
insertTokenNoGuard(token, category) ==
  IF slashPosition = NoSlash \/ slashPosition.node = 0
    THEN \* the read of slashPosition.node or of parent.insertBefore throws
         /\ UNCHANGED <<children, sel, showMenu, activeCategory, filter,
                        selectedIndex, slashPosition>>
         /\ UNCHANGED environment
         /\ last' = Event("insert", "", "threw")
  ELSE
    LET node         == slashPosition.node
        text         == children[node].text
        cursorOffset == sel.offset
        before       == Substring(text, 0, slashPosition.offset)
        after        == SubstringFrom(text, cursorOffset)
        beforeNode   == TextNode(before)
        afterNode    == TextNode(IF after = << >> THEN <<" ">> ELSE after)
        tag          == TagNode(category, token)
    IN  /\ Len(children) + 2 <= MaxNodes
        /\ children' = SubSeq(children, 1, node - 1)
                         \o <<beforeNode, tag, afterNode>>
                         \o SubSeq(children, node + 1, Len(children))
        /\ sel' = Caret(node + 2, IF Len(afterNode.text) > 0 THEN 1 ELSE 0)
        /\ Commit(FALSE, NoCategory, filter, selectedIndex, NoSlash)
        /\ UNCHANGED environment
        /\ last' = Event("insert", "", "inserted")

insertToken(token, category) ==
  IF slashPosition = NoSlash
    THEN \* if (!slashPosition) return;
         /\ UNCHANGED <<children, sel, showMenu, activeCategory, filter,
                        selectedIndex, slashPosition>>
         /\ UNCHANGED environment
         /\ last' = Event("insert", "", "noTrigger")
  ELSE IF slashPosition.node = 0
    THEN \* node.parentNode is null: parent.insertBefore throws, nothing is set
         /\ UNCHANGED <<children, sel, showMenu, activeCategory, filter,
                        selectedIndex, slashPosition>>
         /\ UNCHANGED environment
         /\ last' = Event("insert", "", "threw")
  ELSE
    LET node         == slashPosition.node
        text         == children[node].text
        cursorOffset == sel.offset
        before       == Substring(text, 0, slashPosition.offset)
        after        == SubstringFrom(text, cursorOffset)
        beforeNode   == TextNode(before)
        afterNode    == TextNode(IF after = << >> THEN <<" ">> ELSE after)
        tag          == TagNode(category, token)
    IN  /\ Len(children) + 2 <= MaxNodes
        /\ children' = SubSeq(children, 1, node - 1)
                         \o <<beforeNode, tag, afterNode>>
                         \o SubSeq(children, node + 1, Len(children))
        /\ sel' = Caret(node + 2, IF Len(afterNode.text) > 0 THEN 1 ELSE 0)
        /\ Commit(FALSE, NoCategory, filter, selectedIndex, NoSlash)
        /\ UNCHANGED environment
        /\ last' = Event("insert", "", "inserted")

\* ------------------------------------------------------------------ handleSelect

\* A row of the category list has a `tokens` field, a token has none.
handleSelect(item) ==
  IF activeCategory = NoCategory /\ "tokens" \in DOMAIN item
    THEN /\ Commit(showMenu, item.id, << >>, 0, slashPosition)
         /\ UNCHANGED <<children, sel>>
         /\ UNCHANGED environment
         /\ last' = Event("select", "", "category")
    ELSE insertToken(item, CategoryById(activeCategory))

\* handleSelect(undefined): the read of item.tokens or of token.label throws
\* before any state is set.
SelectNothing ==
  /\ UNCHANGED <<children, sel, showMenu, activeCategory, filter,
                 selectedIndex, slashPosition>>
  /\ UNCHANGED environment
  /\ last' = Event("select", "", "threw")

\* The rows the open menu renders, in index order.
MenuRows == IF activeCategory # NoCategory THEN flattenedTokens ELSE currentCategories

\* ------------------------------------------------------------------ events

\* A character key: the default insertion, then the input event.
TypeChar(c) ==
  /\ TotalChars(children) + TagCount(children) < MaxChars
  /\ \E e \in {InsertChar(children, sel, slashPosition, c)} :
       /\ FireInput(e.children, e.sel, e.slash)
       /\ UNCHANGED environment
       /\ last' = Event("type", c, InputBranch(e.children, e.sel, e.slash))

\* The default backward delete, then the input event.
DefaultBackspace ==
  \E e \in DeleteBackward(children, sel, slashPosition) :
    /\ FireInput(e.children, e.sel, e.slash)
    /\ UNCHANGED environment
    /\ last' = Event("backspace",
                     IF TagCount(e.children) < TagCount(children) THEN "tag" ELSE "char",
                     InputBranch(e.children, e.sel, e.slash))

\* prevSibling.remove() / prevChild.remove() of the tag at index j, with
\* preventDefault: no input event follows.
RemoveTag(j) ==
  /\ children' = RemoveNode(children, j)
  /\ sel' = SelAfterRemove(children, sel, j)
  /\ slashPosition' = SlashAfterRemove(children, slashPosition, j)
  /\ UNCHANGED <<showMenu, activeCategory, filter, selectedIndex>>
  /\ UNCHANGED environment
  /\ last' = Event("backspace", "tag", "guard")

\* Backspace without the branch that leaves a category on an empty filter.
BackspaceNoBack ==
  IF /\ ~showMenu
     /\ sel.node # 0 /\ sel.offset = 0
     /\ sel.node > 1 /\ IsTag(children[sel.node - 1])
    THEN RemoveTag(sel.node - 1)
  ELSE IF /\ ~showMenu
          /\ sel.node = 0 /\ sel.offset > 0
          /\ IsTag(children[sel.offset])
    THEN RemoveTag(sel.offset)
  ELSE DefaultBackspace

\* handleKeyDown, e.key === 'Backspace'
Backspace ==
  IF /\ ~showMenu
     /\ sel.node # 0 /\ sel.offset = 0
     /\ sel.node > 1 /\ IsTag(children[sel.node - 1])
    THEN RemoveTag(sel.node - 1)
  ELSE IF /\ ~showMenu
          /\ sel.node = 0 /\ sel.offset > 0
          /\ IsTag(children[sel.offset])
    THEN RemoveTag(sel.offset)
  ELSE IF ~showMenu
    THEN DefaultBackspace
  ELSE IF activeCategory # NoCategory /\ filter = << >>
    THEN /\ Commit(showMenu, NoCategory, filter, 0, slashPosition)
         /\ UNCHANGED <<children, sel>>
         /\ UNCHANGED environment
         /\ last' = Event("backspace", "", "back")
  ELSE DefaultBackspace

\* ArrowDown that does not wrap to the first row.
ArrowDownNoWrap ==
  /\ showMenu
  /\ Commit(showMenu, activeCategory, filter, selectedIndex + 1, slashPosition)
  /\ UNCHANGED <<children, sel>>
  /\ UNCHANGED environment
  /\ last' = Event("next", "", "")

\* handleKeyDown, e.key === 'ArrowDown'
ArrowDown ==
  /\ showMenu
  /\ Commit(showMenu, activeCategory, filter,
            IF selectedIndex < itemCount - 1 THEN selectedIndex + 1 ELSE 0,
            slashPosition)
  /\ UNCHANGED <<children, sel>>
  /\ UNCHANGED environment
  /\ last' = Event("next", "", "")

\* handleKeyDown, e.key === 'ArrowUp'
ArrowUp ==
  /\ showMenu
  /\ Commit(showMenu, activeCategory, filter,
            IF selectedIndex > 0 THEN selectedIndex - 1 ELSE itemCount - 1,
            slashPosition)
  /\ UNCHANGED <<children, sel>>
  /\ UNCHANGED environment
  /\ last' = Event("previous", "", "")

\* handleKeyDown, e.key === 'Enter' && itemCount > 0
Enter ==
  /\ showMenu
  /\ itemCount > 0
  /\ IF selectedIndex + 1 \in DOMAIN MenuRows
       THEN handleSelect(MenuRows[selectedIndex + 1])
       ELSE SelectNothing

\* Escape that closes the menu inside a category too.
EscapeCloses ==
  /\ showMenu
  /\ Commit(FALSE, activeCategory, filter, selectedIndex, slashPosition)
  /\ UNCHANGED <<children, sel>>
  /\ UNCHANGED environment
  /\ last' = Event("escape", "", "close")

\* handleKeyDown, e.key === 'Escape'
Escape ==
  /\ showMenu
  /\ IF activeCategory # NoCategory
       THEN Commit(showMenu, NoCategory, << >>, 0, slashPosition)
       ELSE Commit(FALSE, activeCategory, filter, selectedIndex, slashPosition)
  /\ UNCHANGED <<children, sel>>
  /\ UNCHANGED environment
  /\ last' = Event("escape", "", IF activeCategory # NoCategory THEN "back" ELSE "close")

\* onMouseEnter of row k
HoverItem(k) ==
  /\ showMenu
  /\ k + 1 \in DOMAIN MenuRows
  /\ k # selectedIndex
  /\ Commit(showMenu, activeCategory, filter, k, slashPosition)
  /\ UNCHANGED <<children, sel>>
  /\ UNCHANGED environment
  /\ last' = Event("hover", "", "")

\* onClick of row k
ClickItem(k) ==
  /\ showMenu
  /\ k + 1 \in DOMAIN MenuRows
  /\ handleSelect(MenuRows[k + 1])

\* onClick of the dropdown-back button
ClickBack ==
  /\ showMenu
  /\ activeCategory # NoCategory
  /\ Commit(showMenu, NoCategory, << >>, 0, slashPosition)
  /\ UNCHANGED <<children, sel>>
  /\ UNCHANGED environment
  /\ last' = Event("back", "", "back")

\* The caret placed elsewhere in the buffer (arrow keys without a menu
\* binding, Home, End, a click): no handler of the component runs.
MoveCaret(c) ==
  /\ c # sel
  /\ sel' = c
  /\ UNCHANGED <<children, showMenu, activeCategory, filter, selectedIndex,
                 slashPosition>>
  /\ UNCHANGED environment
  /\ last' = Event("move", "", "")

\* ------------------------------------------------------------------ submit, cancel

\* String.prototype.trim, on the white space the model types.
RECURSIVE TrimStart(_)
TrimStart(s) ==
  IF Len(s) > 0 /\ Head(s) = " " THEN TrimStart(Tail(s)) ELSE s

RECURSIVE TrimEnd(_)
TrimEnd(s) ==
  IF Len(s) > 0 /\ s[Len(s)] = " " THEN TrimEnd(SubSeq(s, 1, Len(s) - 1)) ELSE s

Trim(s) == TrimEnd(TrimStart(s))

\* editorRef.current.innerText: the text nodes and the textContent of the
\* tags (inline-block spans add no separator), in document order.
RECURSIVE InnerText(_)
InnerText(kids) ==
  IF Len(kids) = 0 THEN << >>
  ELSE (IF IsTag(Head(kids)) THEN Head(kids).value ELSE Head(kids).text)
         \o InnerText(Tail(kids))

\* One unit of the serialized markup: a character of a text node, or the
\* whole <span class="token-tag" data-type data-value> element of a tag.
HtmlChar(c) == [span |-> FALSE, type |-> "", value |-> <<c>>]

HtmlSpan(n) == [span |-> TRUE, type |-> n.type, value |-> n.value]

\* editorRef.current.innerHTML
RECURSIVE InnerHTML(_)
InnerHTML(kids) ==
  IF Len(kids) = 0 THEN << >>
  ELSE (IF IsTag(Head(kids)) THEN <<HtmlSpan(Head(kids))>>
        ELSE [i \in 1..Len(Head(kids).text) |-> HtmlChar(Head(kids).text[i])])
         \o InnerHTML(Tail(kids))

\* innerHTML.trim(): white space goes from the two ends, up to the first
\* element or other character.
RECURSIVE TrimHtmlStart(_)
TrimHtmlStart(h) ==
  IF Len(h) > 0 /\ Head(h) = HtmlChar(" ") THEN TrimHtmlStart(Tail(h)) ELSE h

RECURSIVE TrimHtmlEnd(_)
TrimHtmlEnd(h) ==
  IF Len(h) > 0 /\ h[Len(h)] = HtmlChar(" ")
    THEN TrimHtmlEnd(SubSeq(h, 1, Len(h) - 1)) ELSE h

TrimHtml(h) == TrimHtmlEnd(TrimHtmlStart(h))

\* slashPosition after innerHTML = '': the node it names is out of the
\* document.
SlashAfterClear(kids, slash) ==
  IF slash = NoSlash \/ slash.node = 0 THEN slash
  ELSE [node |-> 0, offset |-> slash.offset]

\* innerHTML = '': no child is left and the selection collapses into the
\* editor element.
ClearEditor ==
  /\ children' = << >>
  /\ sel' = Caret(0, 0)
  /\ slashPosition' = SlashAfterClear(children, slashPosition)
  /\ UNCHANGED <<showMenu, activeCategory, filter, selectedIndex>>

\* handleSubmit without the test for an empty text.
handleSubmitNoGuard(key) ==
  LET text == Trim(InnerText(children))
      html == TrimHtml(InnerHTML(children))
  IN  /\ ClearEditor
      /\ UNCHANGED environment
      /\ last' = [Event("submit", key, "called") EXCEPT
                     !.call = [fn |-> "onSubmit", text |-> text, html |-> html]]

\* handleSubmit that does not trim innerText.
handleSubmitNoTrim(key) ==
  LET text == InnerText(children)
      html == TrimHtml(InnerHTML(children))
  IN  IF text # << >>
        THEN /\ ClearEditor
             /\ UNCHANGED environment
             /\ last' = [Event("submit", key, "called") EXCEPT
                            !.call = [fn |-> "onSubmit", text |-> text,
                                      html |-> html]]
        ELSE /\ UNCHANGED <<children, sel, showMenu, activeCategory, filter,
                            selectedIndex, slashPosition>>
             /\ UNCHANGED environment
             /\ last' = Event("submit", key, "empty")

\* handleSubmit, called by the click on the submit button or by the keyboard
\* shortcut; `key` says which (history only).
handleSubmit(key) ==
  LET text == Trim(InnerText(children))
      html == TrimHtml(InnerHTML(children))
  IN  IF text # << >>
        THEN /\ ClearEditor
             /\ UNCHANGED environment
             /\ last' = [Event("submit", key, "called") EXCEPT
                            !.call = [fn |-> "onSubmit", text |-> text,
                                      html |-> html]]
        ELSE /\ UNCHANGED <<children, sel, showMenu, activeCategory, filter,
                            selectedIndex, slashPosition>>
             /\ UNCHANGED environment
             /\ last' = Event("submit", key, "empty")

\* handleKeyDown, e.key === 'Enter' with metaKey or ctrlKey while the menu is
\* closed: the shortcut of handleSubmit.  While the menu is open the key
\* reaches the switch, which does not read the modifiers: that is Enter.
CmdEnter ==
  /\ ~showMenu
  /\ handleSubmit("Enter")

\* handleCancel that leaves the buffer as it is.
handleCancelKeepsBuffer ==
  /\ UNCHANGED <<children, sel, showMenu, activeCategory, filter,
                 selectedIndex, slashPosition>>
  /\ UNCHANGED environment
  /\ last' = [Event("cancel", "", "called") EXCEPT !.call.fn = "onCancel"]

\* handleCancel (the cancel button)
handleCancel ==
  /\ ClearEditor
  /\ UNCHANGED environment
  /\ last' = [Event("cancel", "", "called") EXCEPT !.call.fn = "onCancel"]

\* ------------------------------------------------------------------ specification

\* undefined: a field a request does not have, a header it does not carry, no
\* request yet.
Undefined == "undefined"

\* req.body || {} of a request without a body
NoBody ==
  [id |-> Undefined, prodImage |-> Undefined, designImage |-> Undefined,
   figmaUrl |-> Undefined, comments |-> Undefined]

\* A response that carries no session.
NoSession ==
  [id |-> Undefined, prodImage |-> Undefined, designImage |-> Undefined,
   figmaUrl |-> Undefined, comments |-> Undefined, createdAt |-> 0,
   updatedAt |-> 0]

Init ==
  /\ children = << >>
  /\ sel = Caret(0, 0)
  /\ showMenu = FALSE
  /\ activeCategory = NoCategory
  /\ filter = << >>
  /\ selectedIndex = 0
  /\ slashPosition = NoSlash
  /\ tokens = LoadedTokens
  /\ isLoadingTokens = FALSE
  /\ db = << >>
  /\ dataFile = << >>
  /\ reqBody = NoBody
  /\ resJson = NoSession
  /\ last = Event("init", "", "")

Next ==
  \/ \E c \in Keys : TypeChar(c)
  \/ Backspace
  \/ ArrowDown
  \/ ArrowUp
  \/ Enter
  \/ Escape
  \/ \E k \in 0..(Len(MenuRows) - 1) : HoverItem(k)
  \/ \E k \in 0..(Len(MenuRows) - 1) : ClickItem(k)
  \/ ClickBack
  \/ \E c \in CaretPositions(children) : MoveCaret(c)
  \/ handleSubmit("button")
  \/ CmdEnter
  \/ handleCancel

Spec == Init /\ [][Next]_vars

\* The editor mounted while the catalog is still being fetched: the `tokens`
\* prop is empty until the fetch completes, then the component re-renders
\* with the fetched lists.  No state hook is set and the dependencies of the
\* selectedIndex effect are unchanged.
TokensArrive ==
  /\ tokens = NoTokens
  /\ tokens' = LoadedTokens
  /\ isLoadingTokens' = FALSE
  /\ UNCHANGED <<children, sel, showMenu, activeCategory, filter,
                 selectedIndex, slashPosition, db, dataFile, reqBody, resJson>>
  /\ last' = Event("catalog", "", "")

InitLoading ==
  /\ children = << >>
  /\ sel = Caret(0, 0)
  /\ showMenu = FALSE
  /\ activeCategory = NoCategory
  /\ filter = << >>
  /\ selectedIndex = 0
  /\ slashPosition = NoSlash
  /\ tokens = NoTokens
  /\ isLoadingTokens = TRUE
  /\ db = << >>
  /\ dataFile = << >>
  /\ reqBody = NoBody
  /\ resJson = NoSession
  /\ last = Event("init", "", "")

NextLoading ==
  \/ Next
  \/ TokensArrive

SpecLoading == InitLoading /\ [][NextLoading]_vars

\* insertToken called while no anchor is recorded.  No row of the menu makes
\* this call (the menu is open only with an anchor): it is the call the test
\* of line 303 is for, made on its own.
InsertAttempt ==
  \E c \in CategoryIds : \E k \in 1..Len(CategoryById(c).tokens) :
    /\ slashPosition = NoSlash
    /\ insertToken(CategoryById(c).tokens[k], CategoryById(c))

NextInsert ==
  \/ Next
  \/ InsertAttempt

SpecInsert == Init /\ [][NextInsert]_vars

\* The letters of the filter texts of SpecFilter.
FilterLetters == {"c", "o", "l", "T", "x"}

\* Filter texts of SpecFilter have at most this many letters.
MaxFilterLen == 3

FilterInputs == UNION {[1..n -> FilterLetters] : n \in 0..MaxFilterLen}

\* The top-level list as a function of the filter text and the snapshot: the
\* editor after '/' and a filter text were typed into it, empty, before or
\* after the catalog was fetched; next and previous then count the rows.
InitFilter ==
  \E f \in FilterInputs :
    /\ children = <<TextNode(<<"/">> \o f)>>
    /\ sel = Caret(1, Len(f) + 1)
    /\ showMenu = TRUE
    /\ activeCategory = NoCategory
    /\ filter = f
    /\ selectedIndex = 0
    /\ slashPosition = [node |-> 1, offset |-> 0]
    /\ tokens \in {NoTokens, LoadedTokens}
    /\ isLoadingTokens = (tokens = NoTokens)
    /\ db = << >>
    /\ dataFile = << >>
    /\ reqBody = NoBody
    /\ resJson = NoSession
    /\ last = IF f = << >> THEN Event("type", "/", "trigger")
              ELSE Event("type", f[Len(f)], "filter")

NextFilter ==
  \/ ArrowDown
  \/ ArrowUp

SpecFilter == InitFilter /\ [][NextFilter]_vars

\* The token names of SpecNormalizer: no separator, the empty name, one and
\* two group segments in both letter cases, a deeper path, the key of the
\* implicit subgroup as a segment, an inherited property name as a segment,
\* and leading, trailing and consecutive separators.
NameInputs ==
  { <<"x">>,
    << >>,
    <<"a", "/", "x">>,
    <<"B", "/", "x">>,
    <<"a", "/", "B", "/", "x">>,
    <<"a", "/", "a", "/", "x">>,
    <<"a", "/", "a", "/", "b", "/", "x">>,
    <<"a", "/", "_", "_", "n", "o", "n", "e", "_", "_", "/", "x">>,
    <<"c", "o", "n", "s", "t", "r", "u", "c", "t", "o", "r", "/", "x">>,
    <<"a", "/", "/", "x">>,
    <<"/", "x", "/">> }

\* A category of SpecNormalizer has at most this many tokens.
MaxTokens == 3

\* The ids of the tokens of a list, by place.
TokenIds == <<"n1", "n2", "n3", "n4", "n5">>

\* The token lists of SpecNormalizer.
TokenLists ==
  UNION {{[i \in 1..n |-> [id |-> TokenIds[i], name |-> names[i],
                           value |-> "#000000"]] :
            names \in [1..n -> NameInputs]} : n \in 1..MaxTokens}

\* The filter texts of SpecNormalizer.
NormFilters == {<< >>, <<"x">>, <<"A">>, <<"b">>}

\* The normalizer as a function of the token list and the filter text: the
\* editor after '/', the selection of the colour category and a filter text
\* typed behind it; next, previous and the pointer then walk the rows.  A list
\* the first render of the category throws on is left with the empty filter.
InitNormalizer ==
  \E list \in TokenLists, f \in NormFilters :
    /\ f # << >> => ~groupTokensThrows(list)
    /\ children = <<TextNode(<<"/">> \o f)>>
    /\ sel = Caret(1, Len(f) + 1)
    /\ showMenu = TRUE
    /\ activeCategory = "colour"
    /\ filter = f
    /\ selectedIndex = 0
    /\ slashPosition = [node |-> 1, offset |-> 0]
    /\ tokens = [colors |-> list, typography |-> << >>, spacing |-> << >>]
    /\ isLoadingTokens = FALSE
    /\ db = << >>
    /\ dataFile = << >>
    /\ reqBody = NoBody
    /\ resJson = NoSession
    /\ last = IF f = << >> THEN Event("select", "", "category")
              ELSE Event("type", f[Len(f)], "filter")

\* A render that throws unmounts the component: no handler runs after it.
NextNormalizer ==
  \/ ~RenderThrows /\ ArrowDown
  \/ ~RenderThrows /\ ArrowUp
  \/ ~RenderThrows /\ \E k \in 0..(Len(MenuRows) - 1) : HoverItem(k)

SpecNormalizer == InitNormalizer /\ [][NextNormalizer]_vars

\* ------------------------------------------------------------------ server.js

\* Values of JSON fields and headers are strings; these stand for the values
\* that are not.
JsNull == "null"

\* !v is false
Truthy(v) == v \notin {Undefined, JsNull, ""}

\* db.sessions never holds more sessions than this.
MaxSessions == 2

\* The clock is read at most at this many distinct instants.
MaxTime == 2

\* The ids generateId returns, in the order it returns them, and one more
\* that a client can send.
IdNames == <<"s1", "s2", "s3", "s4", "s5">>

SessionIds == {IdNames[i] : i \in 1..(MaxSessions + 1)}

\* The values of the x-figma-token header.
FigmaTokens == {"figd_secret"}

\* The bodies of POST /api/sessions: comments is absent, an empty array, an
\* array of one comment, or a value that is not an array; designImage, which
\* the handler treats by the expressions it has for prodImage, is supplied
\* alone.  The client keeps the Figma token in localStorage and sends it in
\* the header only: no field holds it.
Bodies ==
  [id : {Undefined} \cup SessionIds,
   prodImage : {Undefined, "p1"},
   designImage : {Undefined},
   figmaUrl : {Undefined, "u1"},
   comments : {Undefined, "[]", "[c1]", "c1"}]
  \cup
  [id : {Undefined} \cup SessionIds,
   prodImage : {Undefined},
   designImage : {"d1"},
   figmaUrl : {Undefined},
   comments : {Undefined}]

\* Array.isArray(comments)
IsArray(comments) == comments \in {"[]", "[c1]"}

\* new Date().toISOString(): the clock does not run backwards.
Now ==
  {t \in 1..MaxTime : \A i \in 1..Len(db) : db[i].updatedAt <= t}

\* The editor: a request changes nothing of it.
editor == <<children, sel, showMenu, activeCategory, filter, selectedIndex,
            slashPosition, tokens, isLoadingTokens>>

\* res.status(status).json(...) of a route, to a request with this token
\* and this body; `saved` says that saveDb() was called before.
Respond(route, figmaToken, body, status, json, saved) ==
  /\ last' = [op |-> route, key |-> figmaToken, res |-> status,
              call |-> IF saved THEN [NoCall EXCEPT !.fn = "saveDb"] ELSE NoCall]
  /\ reqBody' = body
  /\ resJson' = json

\* saveDb(): writeFileSync of the new db (on a disk that takes the write).
saveDb == dataFile' = db'

\* db.sessions.findIndex((s) => s.id === id), 0 for -1
FindIndex(id) ==
  IF \E i \in 1..Len(db) : db[i].id = id
    THEN CHOOSE i \in 1..Len(db) :
           db[i].id = id /\ \A j \in 1..(i - 1) : db[j].id # id
    ELSE 0

\* The test of line 98: the body supplies nothing to save.
NothingToSave(body) ==
  /\ ~Truthy(body.prodImage) /\ ~Truthy(body.designImage)
  /\ ~Truthy(body.figmaUrl)
  /\ (~IsArray(body.comments) \/ body.comments = "[]")

\* The session built for an existing id (lines 111-118).
UpdatedSession(old, body, now) ==
  [old EXCEPT
     !.prodImage = IF body.prodImage # Undefined THEN body.prodImage
                   ELSE old.prodImage,
     !.designImage = IF body.designImage # Undefined THEN body.designImage
                     ELSE old.designImage,
     !.figmaUrl = IF body.figmaUrl # Undefined THEN body.figmaUrl ELSE old.figmaUrl,
     !.comments = IF IsArray(body.comments) THEN body.comments ELSE old.comments,
     !.updatedAt = now]

\* The session built for a request without id (lines 123-131).
NewSession(newId, body, now) ==
  [id |-> newId,
   prodImage |-> IF Truthy(body.prodImage) THEN body.prodImage ELSE JsNull,
   designImage |-> IF Truthy(body.designImage) THEN body.designImage ELSE JsNull,
   figmaUrl |-> IF Truthy(body.figmaUrl) THEN body.figmaUrl ELSE "",
   comments |-> IF IsArray(body.comments) THEN body.comments ELSE "[]",
   createdAt |-> now,
   updatedAt |-> now]

\* POST /api/sessions that stores the request under an id it does not know,
\* and then answers 404.
postSessionsStoresUnknownId(body, figmaToken) ==
  /\ UNCHANGED editor
  /\ ~NothingToSave(body)
  /\ Truthy(body.id) /\ FindIndex(body.id) = 0
  /\ Len(db) < MaxSessions
  /\ \E now \in Now :
       /\ db' = Append(db, NewSession(body.id, body, now))
       /\ saveDb
       /\ Respond("POST /api/sessions", figmaToken, body, "404", NoSession, TRUE)

\* POST /api/sessions that replaces the whole session by what the request
\* supplies.
postSessionsReplacesSession(body, figmaToken) ==
  /\ UNCHANGED editor
  /\ IF NothingToSave(body)
       THEN /\ UNCHANGED <<db, dataFile>>
            /\ Respond("POST /api/sessions", figmaToken, body, "400", NoSession,
                       FALSE)
     ELSE \E now \in Now :
       IF Truthy(body.id)
         THEN LET existingIndex == FindIndex(body.id)
              IN  IF existingIndex = 0
                    THEN /\ UNCHANGED <<db, dataFile>>
                         /\ Respond("POST /api/sessions", figmaToken, body, "404",
                                    NoSession, FALSE)
                    ELSE LET session == NewSession(body.id, body, now)
                         IN  /\ db' = [db EXCEPT ![existingIndex] = session]
                             /\ saveDb
                             /\ Respond("POST /api/sessions", figmaToken, body,
                                        "200", session, TRUE)
         ELSE LET session == NewSession(IdNames[Len(db) + 1], body, now)
              IN  /\ Len(db) < MaxSessions
                  /\ db' = Append(db, session)
                  /\ saveDb
                  /\ Respond("POST /api/sessions", figmaToken, body, "200",
                             session, TRUE)

\* POST /api/sessions, to a request with this body and this x-figma-token
\* header; the handler reads the body only.  generateId returns an id no
\* session has.
postSessions(body, figmaToken) ==
  /\ UNCHANGED editor
  /\ IF NothingToSave(body)
       THEN /\ UNCHANGED <<db, dataFile>>
            /\ Respond("POST /api/sessions", figmaToken, body, "400", NoSession,
                       FALSE)
     ELSE \E now \in Now :
       IF Truthy(body.id)
         THEN LET existingIndex == FindIndex(body.id)
              IN  IF existingIndex = 0
                    THEN /\ UNCHANGED <<db, dataFile>>
                         /\ Respond("POST /api/sessions", figmaToken, body, "404",
                                    NoSession, FALSE)
                    ELSE LET session == UpdatedSession(db[existingIndex], body, now)
                         IN  /\ db' = [db EXCEPT ![existingIndex] = session]
                             /\ saveDb
                             /\ Respond("POST /api/sessions", figmaToken, body,
                                        "200", session, TRUE)
         ELSE LET session == NewSession(IdNames[Len(db) + 1], body, now)
              IN  /\ Len(db) < MaxSessions
                  /\ db' = Append(db, session)
                  /\ saveDb
                  /\ Respond("POST /api/sessions", figmaToken, body, "200",
                             session, TRUE)

\* GET /api/sessions/:id
getSession(id) ==
  /\ UNCHANGED editor
  /\ UNCHANGED <<db, dataFile>>
  /\ LET index == FindIndex(id)
     IN  IF index = 0
           THEN Respond("GET /api/sessions/:id", Undefined,
                        [NoBody EXCEPT !.id = id], "404", NoSession, FALSE)
           ELSE Respond("GET /api/sessions/:id", Undefined,
                        [NoBody EXCEPT !.id = id], "200", db[index], FALSE)

\* What the request to api.figma.com ends in: a reply that is ok (one that is
\* not is passed on in the same way, with its status), or "throw" when fetch
\* or response.json() throws.
Upstream == {"200", "throw"}

\* The part the three Figma routes share: the token test, the fetch with the
\* token in its X-Figma-Token header, and the reply.
FigmaProxy(route, figmaToken, missing) ==
  /\ UNCHANGED editor
  /\ UNCHANGED <<db, dataFile>>
  /\ IF ~Truthy(figmaToken)
       THEN Respond(route, figmaToken, NoBody, "401", NoSession, FALSE)
     ELSE IF missing
       THEN Respond(route, figmaToken, NoBody, "400", NoSession, FALSE)
     ELSE \E reply \in Upstream :
            Respond(route, figmaToken, NoBody,
                    IF reply = "throw" THEN "500" ELSE reply, NoSession, FALSE)

\* The images route, keeping the token it was sent in a session.
figmaImagesKeepsToken(figmaToken, ids) ==
  /\ Truthy(figmaToken) /\ Truthy(ids)
  /\ Len(db) >= 1
  /\ UNCHANGED editor
  /\ db' = [db EXCEPT ![1].figmaUrl = figmaToken]
  /\ saveDb
  /\ Respond("GET /api/figma/images", figmaToken, NoBody, "200", NoSession, TRUE)

\* GET /api/figma/images/:fileKey
figmaImages(figmaToken, ids) ==
  FigmaProxy("GET /api/figma/images", figmaToken, ~Truthy(ids))

\* GET /api/figma/files/:fileKey
figmaFiles(figmaToken) ==
  FigmaProxy("GET /api/figma/files", figmaToken, FALSE)

\* GET /api/figma/styles/:fileKey
figmaStyles(figmaToken) ==
  FigmaProxy("GET /api/figma/styles", figmaToken, FALSE)

\* The server after loadDb() found no data file; the editor is not touched.
InitServer ==
  /\ Init

NextServer ==
  \/ \E body \in Bodies, t \in FigmaTokens : postSessions(body, t)
  \/ \E id \in SessionIds : getSession(id)
  \/ \E t \in {Undefined} \cup FigmaTokens, ids \in {Undefined, "1:2"} :
       figmaImages(t, ids)
  \/ \E t \in {Undefined} \cup FigmaTokens : figmaFiles(t)
  \/ \E t \in {Undefined} \cup FigmaTokens : figmaStyles(t)

SpecServer == InitServer /\ [][NextServer]_vars

TypeOK ==
  /\ showMenu \in BOOLEAN
  /\ activeCategory \in CategoryIds \cup {NoCategory}
  /\ selectedIndex \in Int
  /\ isLoadingTokens \in BOOLEAN
  /\ \A i \in 1..Len(children) : children[i].kind \in {"text", "tag"}
  /\ sel \in CaretPositions(children) \cup {Caret(0, k) : k \in 0..Len(children)}

\* ------------------------------------------------------------------ properties

\* The last event inserted a token tag.
Inserted == last.op = "insert" /\ last.res = "inserted"

\* This step is an event of the given kind.
Step(op) == last'.op = op

\* The caret sits in the gap after child k of kids, in any of the boundary
\* points that denote that gap.
AtGap(kids, caret, k) ==
  \/ caret = Caret(0, k)
  \/ k >= 1 /\ IsText(kids[k]) /\ caret = Caret(k, Len(kids[k].text))
  \/ k < Len(kids) /\ IsText(kids[k + 1]) /\ caret = Caret(k + 1, 0)

\* The tags of a buffer, in order.
TagsOf(kids) == SelectSeq(kids, IsTag)

\* C1: whenever the visible item list is non-empty, selectedIndex is one of
\* its indices, in every state reached by typing, deleting, caret moves,
\* selection, back, Escape, next and previous.
C1_SelectedIndexInRange ==
  Len(MenuRows) > 0 => (0 <= selectedIndex /\ selectedIndex < Len(MenuRows))

\* C1 witness: 'previous' wrapped from the first to the last of two rows.
C1_Witness ==
  /\ showMenu /\ last.op = "previous"
  /\ Len(MenuRows) = 2 /\ selectedIndex = 1

\* C2: a backspace right after an insertion removes the inserted tag, deletes
\* no character, and leaves the caret in the gap where the tag was.
C2_InsertThenBackspaceRemovesTag ==
  [][(Inserted /\ Step("backspace")) =>
       /\ children' = RemoveNode(children, sel.node - 1)
       /\ AtGap(children', sel', sel.node - 2)]_vars

\* C3: after an insertion made with the caret in the anchor's run, behind the
\* trigger, the caret is in the gap right after the new tag, and the text node
\* after the tag is the text that followed the caret, or one space when none
\* did.
C3_CaretRightAfterTag ==
  [][(Step("insert") /\ last'.res = "inserted" /\ InAnchorRun
        /\ sel.offset > slashPosition.offset) =>
       LET j     == slashPosition.node + 1
           text  == children[slashPosition.node].text
           after == SubSeq(text, sel.offset + 1, Len(text))
       IN  /\ IsTag(children'[j])
           /\ children'[j + 1].text = (IF after = << >> THEN <<" ">> ELSE after)
           /\ sel' = Caret(j + 1, 0)]_vars

\* C4: an insertion with anchor a and caret c in the anchor's run replaces the
\* span [a, c) alone: the run becomes the text before a, the tag with the
\* category id and the full token name, and the text from c (one space when
\* there is none); every other node is kept.
C4_SpliceReplacesSpan ==
  [][(Step("insert") /\ last'.res = "inserted" /\ InAnchorRun) =>
       LET n     == slashPosition.node
           a     == slashPosition.offset
           c     == Max(a, sel.offset)
           text  == children[n].text
           after == SubSeq(text, c + 1, Len(text))
       IN  /\ Len(children') = Len(children) + 2
           /\ \A i \in 1..(n - 1) : children'[i] = children[i]
           /\ \A i \in (n + 1)..Len(children) : children'[i + 2] = children[i]
           /\ children'[n] = TextNode(SubSeq(text, 1, a))
           /\ IsTag(children'[n + 1])
           /\ children'[n + 1].type = activeCategory
           /\ \E k \in 1..Len(flattenedTokens) :
                children'[n + 1].value = flattenedTokens[k].name
           /\ children'[n + 2] =
                TextNode(IF after = << >> THEN <<" ">> ELSE after)]_vars

\* C5: an insertion closes the menu, clears activeCategory and the anchor, and
\* leaves none of its trigger text next to the tag it created: the text after
\* the tag is text that followed the trigger character, or the one space.
C5_InsertClearsTrigger ==
  [][(Step("insert") /\ last'.res = "inserted") =>
       LET n    == slashPosition.node
           a    == slashPosition.offset
           text == children[n].text
       IN  /\ ~showMenu'
           /\ activeCategory' = NoCategory
           /\ slashPosition' = NoSlash
           /\ \/ children'[n + 2].text = <<" ">>
              \/ \E k \in (a + 1)..Len(text) :
                   children'[n + 2].text = SubSeq(text, k + 1, Len(text))]_vars

\* C6: a backspace with the caret right behind a tag (nothing but empty text
\* between them) removes that tag and nothing else; a backspace anywhere else
\* removes no tag; tags are never altered.
C6_BackspaceRemovesWholeTag ==
  [][Step("backspace") =>
       LET t == BackTarget(children, sel)
       IN  IF t.kind = "tag"
             THEN children' = RemoveNode(children, t.node)
             ELSE TagsOf(children') = TagsOf(children)]_vars

\* C7: with the menu open, the caret in the anchor's run behind the trigger
\* character and no space in between, typing a space closes the menu, creates
\* no tag and leaves the trigger, the filter text and the space in the run.
C7_SpaceCancelsMenu ==
  [][(/\ showMenu /\ InAnchorRun
      /\ sel.offset > slashPosition.offset
      /\ children[sel.node].text[slashPosition.offset + 1] = "/"
      /\ ~Includes(SubSeq(children[sel.node].text, slashPosition.offset + 2,
                          sel.offset), <<" ">>)
      /\ Step("type") /\ last'.key = " ") =>
       LET n    == sel.node
           a    == slashPosition.offset
           text == children[n].text
       IN  /\ ~showMenu'
           /\ Len(children') = Len(children)
           /\ \A i \in 1..Len(children) : i # n => children'[i] = children[i]
           /\ children'[n] = TextNode(SubSeq(text, 1, sel.offset) \o <<" ">>
                                        \o SubSeq(text, sel.offset + 1, Len(text)))
           /\ SubSeq(children'[n].text, a + 1, sel.offset + 1)
                = <<"/">> \o SubSeq(text, a + 2, sel.offset) \o <<" ">>]_vars

\* C7 witness: "/x " typed into the empty editor; the space closed the menu.
C7_Witness ==
  /\ ~showMenu
  /\ last = Event("type", " ", "cancel")
  /\ children = <<TextNode(<<"/", "x", " ">>)>>
  /\ sel = Caret(1, 3)

C9_MenuClosedAtOrBeforeAnchor ==
  ~(showMenu /\ InAnchorRun /\ sel.offset <= slashPosition.offset)

\* The first half of C10 alone: the caret in the anchor's run.
C10_FilterInAnchorRun ==
  [][(/\ showMenu /\ slashPosition # NoSlash
      /\ slashPosition.node # 0 /\ slashPosition'.node # 0
      /\ last'.op \in {"type", "backspace"}
      /\ last'.res \in {"filter", "cancel"}
      /\ slashPosition'.node = sel'.node /\ showMenu') =>
       filter' = SubSeq(children'[sel'.node].text,
                        slashPosition'.offset + 2, sel'.offset)]_vars

\* C10: after an edit made with the menu open that leaves it open without a
\* new trigger, filter is the text between the anchor and the caret when the
\* caret is in the anchor's run, and is left as it was when the caret is in
\* another run.
C10_FilterFollowsAnchorRun ==
  [][(/\ showMenu /\ slashPosition # NoSlash
      /\ slashPosition.node # 0 /\ slashPosition'.node # 0
      /\ last'.op \in {"type", "backspace"}
      /\ last'.res \in {"filter", "cancel"}) =>
       IF slashPosition'.node = sel'.node
         THEN showMenu' =>
                filter' = SubSeq(children'[sel'.node].text,
                                 slashPosition'.offset + 2, sel'.offset)
         ELSE last'.res = "filter" => filter' = filter]_vars

BufferText(kids) ==
  Concat([i \in 1..Len(kids) |->
            IF IsTag(kids[i]) THEN kids[i].value ELSE kids[i].text])

\* s is only white space.
Blank(s) == \A i \in 1..Len(s) : s[i] = " "

\* C12: a submit on a buffer whose text is empty or only white space calls
\* no callback and changes neither the buffer nor the editor state.
C12_EmptySubmitIsNoOp ==
  [][(Step("submit") /\ Blank(BufferText(children))) =>
       /\ last'.call = NoCall
       /\ UNCHANGED <<children, sel, showMenu, activeCategory, filter,
                      selectedIndex, slashPosition, tokens>>]_vars

\* C12 witness: submit was invoked on a buffer of white space only.
C12_Witness ==
  /\ last.op = "submit" /\ last.call = NoCall
  /\ Len(BufferText(children)) > 0 /\ Blank(BufferText(children))

\* C13: a submit on a buffer with text calls onSubmit once, with the buffer's
\* text without its leading and trailing white space and with a markup that
\* holds every tag's category and label in order; the buffer is then empty.
C13_SubmitSerializesBuffer ==
  [][(Step("submit") /\ ~Blank(BufferText(children))) =>
       LET full == BufferText(children)
           text == last'.call.text
           html == last'.call.html
           IsSpan(h) == h.span
           spans == SelectSeq(html, IsSpan)
           tags  == TagsOf(children)
       IN  /\ last'.call.fn = "onSubmit"
           /\ text # << >> /\ text[1] # " " /\ text[Len(text)] # " "
           /\ \E a \in 0..Len(full) :
                /\ text = SubSeq(full, a + 1, a + Len(text))
                /\ Blank(SubSeq(full, 1, a))
                /\ Blank(SubSeq(full, a + Len(text) + 1, Len(full)))
           /\ Len(spans) = Len(tags)
           /\ \A i \in 1..Len(tags) :
                spans[i].type = tags[i].type /\ spans[i].value = tags[i].value
           /\ children' = << >>]_vars

\* C13 witness: a buffer of text, a tag and the placeholder space was
\* submitted.
C13_Witness ==
  /\ last.op = "submit" /\ last.call.fn = "onSubmit"
  /\ children = << >>
  /\ \E i \in 1..Len(last.call.html) : last.call.html[i].span
  /\ \E i \in 1..Len(last.call.html) : ~last.call.html[i].span

\* C14: selecting a row of the category list enters that category with
\* selectedIndex 0 and an empty filter; the row is one of the offered rows,
\* which all have tokens, and activeCategory is always null or a category
\* with at least one token.
C14_CategoryEnteredHasTokens ==
  /\ [](activeCategory # NoCategory =>
          Len(CategoryById(activeCategory).tokens) >= 1)
  /\ [][(Step("select") /\ last'.res = "category") =>
          /\ activeCategory = NoCategory
          /\ \E k \in 1..Len(categories) :
               /\ Len(categories[k].tokens) >= 1
               /\ activeCategory' = categories[k].id
          /\ showMenu' /\ selectedIndex' = 0 /\ filter' = << >>]_vars

\* C14 witness: the second row of the category list was selected.
C14_Witness ==
  /\ last.op = "select" /\ last.res = "category"
  /\ activeCategory = "text" /\ selectedIndex = 0 /\ filter = << >>

\* C15: inside a category, the back button, Escape, and Backspace on an empty
\* filter lead to the category list with the menu open and selectedIndex 0;
\* that Backspace leaves the buffer and the caret as they are.
C15_BackToCategoryList ==
  [][(/\ showMenu /\ activeCategory # NoCategory
      /\ \/ Step("back")
         \/ Step("escape")
         \/ Step("backspace") /\ filter = << >>) =>
       /\ showMenu' /\ activeCategory' = NoCategory /\ selectedIndex' = 0
       /\ Step("backspace") => (children' = children /\ sel' = sel)]_vars

\* C15 witness: a Backspace inside a category went back to the list and left
\* the trigger character in the buffer.
C15_Witness ==
  /\ last.op = "backspace" /\ last.res = "back"
  /\ showMenu /\ activeCategory = NoCategory /\ selectedIndex = 0
  /\ slashPosition.node > 0
  /\ children[slashPosition.node].text[slashPosition.offset + 1] = "/"

\* C16: Escape at the category list closes the menu and leaves the buffer;
\* inside a category the menu closes only by an insertion or by a
\* cancellation of the trigger by an edit, never by Escape, back or a
\* consumed Backspace.
C16_ClosingTransitions ==
  [][/\ (showMenu /\ activeCategory = NoCategory /\ Step("escape")) =>
          (~showMenu' /\ children' = children)
     /\ (showMenu /\ activeCategory # NoCategory /\ ~showMenu') =>
          \/ Step("insert") /\ last'.res = "inserted"
          \/ last'.op \in {"type", "backspace"} /\ last'.res = "cancel"]_vars

\* C16 witness: Escape at the category list closed the menu over a buffer
\* that still holds the trigger.
C16_Witness ==
  /\ last.op = "escape" /\ last.res = "close"
  /\ ~showMenu /\ TotalChars(children) > 0

\* C17: with n >= 1 rows, next goes from i to i + 1 and from n - 1 to 0,
\* previous from i to i - 1 and from 0 to n - 1, over the category list or
\* the flattened tokens; filter, activeCategory and the buffer are kept.
C17_NextPreviousWrap ==
  [][LET n == Len(MenuRows)
         i == selectedIndex
     IN  /\ (Step("next") /\ n >= 1) =>
              /\ selectedIndex' = IF i < n - 1 THEN i + 1 ELSE 0
              /\ UNCHANGED <<filter, activeCategory, children>>
         /\ (Step("previous") /\ n >= 1 /\ i >= 0) =>
              /\ selectedIndex' = IF i > 0 THEN i - 1 ELSE n - 1
              /\ UNCHANGED <<filter, activeCategory, children>>]_vars

\* C17 witness: next wrapped from the last of the two tokens of a category
\* to the first.
C17_Witness ==
  /\ last.op = "next" /\ showMenu /\ activeCategory # NoCategory
  /\ Len(MenuRows) = 2 /\ selectedIndex = 0

C19_IndexValidAfterRecompute ==
  [][/\ (MenuRows' # MenuRows /\ Len(MenuRows') > 0) =>
          (0 <= selectedIndex' /\ selectedIndex' < Len(MenuRows'))
     /\ Step("select") => last'.res # "threw"]_vars

\* The category label holds the filter text at some place, letter case
\* aside.
LabelHolds(label, f) ==
  \E k \in 0..(Len(label) - Len(f)) :
    \A j \in 1..Len(f) : LowerChar(label[k + j]) = LowerChar(f[j])

\* C20: at top level the rows are the categories of the snapshot that have a
\* token and whose label holds the filter text, letter case aside, in the
\* order of the category list.
C20_TopLevelRows ==
  activeCategory = NoCategory =>
    LET cats == CategoriesOf(tokens)
        Visible(i) == Len(cats[i].tokens) >= 1 /\ LabelHolds(cats[i].label, filter)
        Pos(r) == CHOOSE i \in 1..Len(cats) : cats[i] = MenuRows[r]
    IN  /\ \A r \in 1..Len(MenuRows) :
             \E i \in 1..Len(cats) : cats[i] = MenuRows[r] /\ Visible(i)
        /\ \A i \in 1..Len(cats) :
             Visible(i) => \E r \in 1..Len(MenuRows) : MenuRows[r] = cats[i]
        /\ \A r \in 1..(Len(MenuRows) - 1) : Pos(r) < Pos(r + 1)

\* C20 witness: filter "col" over the fetched catalog shows the colour row
\* alone (the spacing label holds a 'c' too, but spacing has no tokens).
C20_Witness ==
  /\ activeCategory = NoCategory /\ tokens = LoadedTokens
  /\ filter = <<"c", "o", "l">>
  /\ Len(MenuRows) = 1 /\ MenuRows[1].id = "colour"
  /\ last.op = "next"

\* The places of a token in a tree: <<group, subgroup, position>>, subgroup 0
\* for the list of the entry without a group label.
Places(tree, t) ==
  UNION {
    {<<k, 0, j>> : j \in {i \in 1..Len(tree[k].tokens) : tree[k].tokens[i] = t}}
      \cup UNION {{<<k, m, j>> :
                     j \in {i \in 1..Len(tree[k].subgroups[m].tokens) :
                              tree[k].subgroups[m].tokens[i] = t}} :
                  m \in 1..Len(tree[k].subgroups)}
    : k \in 1..Len(tree)}

\* The tokens of the active category, as a set.
CategoryTokens ==
  {CategoryById(activeCategory).tokens[i] :
     i \in 1..Len(CategoryById(activeCategory).tokens)}

\* C21: inside a category the rows are the tokens of the category whose label
\* holds the filter text, letter case aside, each once, and the tree that is
\* flattened holds no other token.
C21_VisibleItemsAreFiltered ==
  activeCategory # NoCategory =>
    /\ ~RenderThrows
    /\ \A tree \in {groupedTokens}, rows \in {MenuRows} :
         /\ \A t \in CategoryTokens :
              IF LabelHolds(t.name, filter)
                THEN Cardinality({r \in 1..Len(rows) : rows[r] = t}) = 1
                ELSE /\ \A r \in 1..Len(rows) : rows[r] # t
                     /\ Places(tree, t) = {}
         /\ \A r \in 1..Len(rows) : rows[r] \in CategoryTokens

\* The group segments of a token name: its path segments before the last.
GroupSegments(name) ==
  LET parts == Split(name) IN SubSeq(parts, 1, Len(parts) - 1)

\* The token is in the list.
Holds(list, t) == \E j \in 1..Len(list) : list[j] = t

\* C22: in a tree the normalizer returns, a token with two or more group
\* segments is under the group labelled by the first and the subgroup labelled
\* by the second; a token with one group segment is in the unlabeled subgroup
\* of its group, which is the group's first subgroup.
C22_FirstTwoSegmentsGroup ==
  (activeCategory # NoCategory /\ ~RenderThrows) =>
    \A tree \in {groupedTokens}, rows \in {getFilteredTokens} :
        \A i \in 1..Len(rows) :
          LET segs == GroupSegments(rows[i].name)
          IN  /\ Len(segs) >= 2 =>
                   \E k \in 1..Len(tree) :
                     /\ tree[k].group = segs[1]
                     /\ \E m \in 1..Len(tree[k].subgroups) :
                          /\ tree[k].subgroups[m].subgroup = segs[2]
                          /\ Holds(tree[k].subgroups[m].tokens, rows[i])
              /\ Len(segs) = 1 =>
                   \E k \in 1..Len(tree) :
                     /\ tree[k].group = segs[1]
                     /\ tree[k].subgroups[1].subgroup = Null
                     /\ Holds(tree[k].subgroups[1].tokens, rows[i])

\* C23: in a tree the normalizer returns, one lexicographic order puts the
\* group labels in ascending order and, in every group, the labels of the
\* named subgroups in ascending order; the unlabeled subgroup comes first; the
\* entry without a group label is the last entry and is not empty.
C23_TreeOrder ==
  (activeCategory # NoCategory /\ ~RenderThrows) =>
    \A tree \in {groupedTokens} :
    LET Labelled(k) == tree[k].group # Null
        Named(k, m) == tree[k].subgroups[m].subgroup # Null
        Ascending(Less(_, _)) ==
          /\ \A k \in 1..Len(tree), j \in 1..Len(tree) :
               (k < j /\ Labelled(k) /\ Labelled(j)) =>
                 Less(tree[k].group, tree[j].group)
          /\ \A k \in 1..Len(tree) :
               \A m \in 1..Len(tree[k].subgroups), n \in 1..Len(tree[k].subgroups) :
                 (m < n /\ Named(k, m) /\ Named(k, n)) =>
                   Less(tree[k].subgroups[m].subgroup, tree[k].subgroups[n].subgroup)
    IN  /\ Ascending(CodeUnitLess) \/ Ascending(LocaleLess)
        /\ \A k \in 1..Len(tree) :
             \A m \in 1..Len(tree[k].subgroups) : ~Named(k, m) => m = 1
        /\ \A k \in 1..Len(tree) :
             ~Labelled(k) => (k = Len(tree) /\ Len(tree[k].tokens) > 0)

\* The place of a token of TokenLists in its list.
IdPlace(id) == CHOOSE i \in 1..Len(TokenIds) : TokenIds[i] = id

\* The tokens of the list are in the order of the list they were taken from.
InListOrder(list) ==
  \A i \in 1..Len(list), j \in 1..Len(list) :
    i < j => IdPlace(list[i].id) < IdPlace(list[j].id)

\* C24: in a tree the normalizer returns, the tokens of every bucket are in
\* the order of the token list; the renders that next, previous and the
\* pointer cause leave the list, the filter and the category as they are, so
\* that each of them calls the normalizer on the same list.
C24_NormalizerStable ==
  /\ []((activeCategory # NoCategory /\ ~RenderThrows) =>
          \A tree \in {groupedTokens} :
              \A k \in 1..Len(tree) :
                /\ InListOrder(tree[k].tokens)
                /\ \A m \in 1..Len(tree[k].subgroups) :
                     InListOrder(tree[k].subgroups[m].tokens))
  /\ [][/\ tokens' = tokens
        /\ filter' = filter
        /\ activeCategory' = activeCategory]_vars

\* C24 witness: after a re-render, a bucket holds the first and the third
\* token of the list and another bucket the second.
C24_Witness ==
  /\ last.op = "next" /\ activeCategory # NoCategory /\ ~RenderThrows
  /\ filter = << >> /\ Len(tokens.colors) = 3
  /\ \E tree \in {groupedTokens} :
         \E k \in 1..Len(tree) : \E m \in 1..Len(tree[k].subgroups) :
           /\ Len(tree[k].subgroups[m].tokens) = 2
           /\ tree[k].subgroups[m].tokens[1].id = "n1"
           /\ tree[k].subgroups[m].tokens[2].id = "n3"

\* C25: for every token list, grouping returns a tree, every token that
\* passes the filter is in one place of it, and a token whose name has no
\* separator is in the entry without a group label, displayed by its name.
C25_EveryNameParses ==
  activeCategory # NoCategory =>
    /\ ~RenderThrows
    /\ \A tree \in {groupedTokens}, rows \in {getFilteredTokens} :
           \A i \in 1..Len(rows) :
             /\ Cardinality(Places(tree, rows[i])) = 1
             /\ ~Includes(rows[i].name, <<"/">>) =>
                  /\ parseTokenName(rows[i]).displayName = rows[i].name
                  /\ \E k \in 1..Len(tree) :
                       tree[k].group = Null /\ Holds(tree[k].tokens, rows[i])

\* C26: whenever the menu is open without rows, at top level or inside a
\* category, the loading state is shown and the empty state is not while the
\* catalog is loading, and the empty state is shown and the loading state is
\* not when it is not loading.
C26_LoadingOrEmptyState ==
  (showMenu /\ Len(MenuRows) = 0) =>
    IF isLoadingTokens THEN ShowsLoading /\ ~ShowsEmpty
                       ELSE ShowsEmpty /\ ~ShowsLoading

C28_CancelClearsBuffer ==
  [][Step("cancel") =>
       /\ children' = << >>
       /\ last'.call = [NoCall EXCEPT !.fn = "onCancel"]]_vars

\* C28 witness: cancel emptied a buffer that held the text run of the
\* trigger.
C28_Witness ==
  /\ last.op = "cancel" /\ last.call.fn = "onCancel"
  /\ children = << >>
  /\ slashPosition # NoSlash /\ slashPosition.node = 0

\* C30: a key press calls onSubmit only while the menu is closed, and Enter
\* on an open menu with at least one row selects the row at selectedIndex:
\* it enters that category or attempts the insertion of that token.
C30_EnterSubmitsOnlyWhenClosed ==
  [][/\ (last'.call.fn = "onSubmit" /\ last'.key # "button") => ~showMenu
     /\ (showMenu /\ Len(MenuRows) >= 1 /\ Enter) =>
          /\ selectedIndex + 1 \in DOMAIN MenuRows
          /\ last'.call = NoCall
          /\ IF activeCategory = NoCategory
               THEN activeCategory' = MenuRows[selectedIndex + 1].id
               ELSE /\ last'.op = "insert"
                    /\ last'.res = "inserted" =>
                         \E i \in 1..Len(children') :
                           /\ IsTag(children'[i])
                           /\ children'[i].value = MenuRows[selectedIndex + 1].name
                           /\ TagCount(children') = TagCount(children) + 1]_vars

\* The values a session holds.
SessionValues(session) ==
  {session.id, session.prodImage, session.designImage, session.figmaUrl,
   session.comments}

\* The route is one of the Figma proxies.
IsFigmaRoute(route) ==
  route \in {"GET /api/figma/images", "GET /api/figma/files",
             "GET /api/figma/styles"}

\* C29: a request to a Figma proxy route changes neither the sessions in
\* memory nor the sessions on disk, and no stored session holds the value of
\* an x-figma-token header.
C29_FigmaTokenNotStored ==
  /\ [][IsFigmaRoute(last'.op) => UNCHANGED <<db, dataFile>>]_vars
  /\ [](/\ \A i \in 1..Len(db) : SessionValues(db[i]) \cap FigmaTokens = {}
        /\ \A i \in 1..Len(dataFile) :
             SessionValues(dataFile[i]) \cap FigmaTokens = {})

\* C29 witness: with a session stored and on disk that a request carrying a
\* token wrote, an images request that carried the token was answered by
\* Figma.
C29_Witness ==
  /\ last.op = "GET /api/figma/images" /\ last.res = "200"
  /\ last.key \in FigmaTokens
  /\ Len(db) >= 1 /\ dataFile = db
  /\ db[1].figmaUrl = "u1"

\* The request is a POST /api/sessions that this step answered.
PostStep == last'.op = "POST /api/sessions"

\* The body supplies an image, a URL or at least one comment.
Supplies(body) ==
  \/ body.prodImage \in {"p1"}
  \/ body.designImage \in {"d1"}
  \/ body.figmaUrl \in {"u1"}
  \/ body.comments = "[c1]"

\* The ids of the stored sessions.
StoredIds == {db[i].id : i \in 1..Len(db)}

\* C31: a POST /api/sessions that supplies nothing to save is answered 400,
\* one that supplies something under an id no session has is answered 404,
\* and a request answered 400 or 404 changes neither the sessions in memory
\* nor the file, and does not call saveDb.
C31_RejectedPostChangesNothing ==
  [][PostStep =>
       /\ ~Supplies(reqBody') => last'.res = "400"
       /\ (Supplies(reqBody') /\ reqBody'.id \in SessionIds \ StoredIds) =>
            last'.res = "404"
       /\ last'.res \in {"400", "404"} =>
            /\ UNCHANGED <<db, dataFile>>
            /\ last'.call.fn # "saveDb"]_vars

\* C31 witness: with a session stored and on disk, a request that supplied
\* an image under an unknown id was answered 404.
C31_Witness ==
  /\ last.op = "POST /api/sessions" /\ last.res = "404"
  /\ Len(db) >= 1 /\ dataFile = db
  /\ reqBody.prodImage = "p1" /\ reqBody.id \notin StoredIds

\* The index of the session with this id.
IndexOf(store, id) == CHOOSE i \in 1..Len(store) : store[i].id = id

\* C32: a POST /api/sessions answered 200 for an id that a session has keeps
\* the number of sessions, the id and createdAt of that session and every
\* other session; each of prodImage, designImage and figmaUrl is the value
\* the request supplies, or the previous one when the request omits it;
\* comments is the array the request supplies, or the previous one; the
\* response holds the session as stored and written to the file.  A GET
\* /api/sessions/:id for an id that a session has is answered 200 with that
\* session as stored.
C32_UpdateKeepsTheRest ==
  [][/\ (PostStep /\ last'.res = "200" /\ reqBody'.id \in StoredIds) =>
          LET body == reqBody'
              i    == IndexOf(db, body.id)
          IN  /\ Len(db') = Len(db)
              /\ \A j \in (1..Len(db)) \ {i} : db'[j] = db[j]
              /\ db'[i].id = db[i].id
              /\ db'[i].createdAt = db[i].createdAt
              /\ db'[i].updatedAt >= db[i].updatedAt
              /\ db'[i].prodImage = IF body.prodImage = Undefined
                                      THEN db[i].prodImage ELSE body.prodImage
              /\ db'[i].designImage = IF body.designImage = Undefined
                                        THEN db[i].designImage ELSE body.designImage
              /\ db'[i].figmaUrl = IF body.figmaUrl = Undefined
                                     THEN db[i].figmaUrl ELSE body.figmaUrl
              /\ db'[i].comments = IF body.comments \in {"[]", "[c1]"}
                                     THEN body.comments ELSE db[i].comments
              /\ resJson' = db'[i]
              /\ dataFile' = db'
     /\ (last'.op = "GET /api/sessions/:id" /\ reqBody'.id \in StoredIds) =>
          /\ last'.res = "200"
          /\ UNCHANGED <<db, dataFile>>
          /\ resJson' = db[IndexOf(db, reqBody'.id)]]_vars

\* C32 witness: the second of two sessions was read after an update that
\* supplied its comments only, and holds the image it was created with.
C32_Witness ==
  /\ last.op = "GET /api/sessions/:id" /\ last.res = "200"
  /\ Len(db) = 2 /\ resJson = db[2]
  /\ resJson.prodImage = "p1" /\ resJson.comments = "[c1]"
  /\ resJson.updatedAt > resJson.createdAt

\* The anchor names a text node of the buffer that holds the trigger
\* character at the anchor offset.
AnchorOnTrigger ==
  /\ slashPosition # NoSlash
  /\ slashPosition.node \in 1..Len(children)
  /\ IsText(children[slashPosition.node])
  /\ slashPosition.offset + 1 \in 1..Len(children[slashPosition.node].text)
  /\ children[slashPosition.node].text[slashPosition.offset + 1] = "/"

\* C33: while the menu is open the anchor names a text node that is in the
\* buffer and holds the trigger character at the anchor offset; so no select
\* finds the anchor node out of the buffer.
C33_OpenMenuAnchorInBuffer ==
  /\ [](showMenu => AnchorOnTrigger)
  /\ [][last'.op = "insert" => last'.res # "threw"]_vars

\* The indices of a list that hold this token.
IndicesOf(list, t) == {i \in 1..Len(list) : list[i] = t}

\* C34: inside a category the render returns, the flattened list holds the
\* filtered tokens, each as often as the filtered list holds it and no other,
\* and the rows of the rendered list carry, in order, the indices 0, 1, ...
\* of the flattened list, each with the token the flattened list holds there.
C34_FlatIndexIsRenderIndex ==
  activeCategory # NoCategory =>
    /\ ~RenderThrows
    /\ \A flat \in {flattenedTokens}, list \in {getFilteredTokens},
          elements \in {renderGroupedTokens} :
         LET rows == SelectSeq(elements, LAMBDA e : e.kind = "item")
         IN  /\ Len(flat) = Len(list)
             /\ \A i \in 1..Len(list) :
                  Cardinality(IndicesOf(flat, list[i]))
                    = Cardinality(IndicesOf(list, list[i]))
             /\ Len(rows) = Len(flat)
             /\ \A i \in 1..Len(rows) :
                  /\ rows[i].flatIndex = i - 1
                  /\ rows[i].token = <<flat[i]>>

\* C35: while the menu is open an anchor is recorded, while it is closed no
\* category is active, and no insertion returns at the test for a missing
\* anchor.
C35_SelectHasAnchor ==
  /\ [](/\ showMenu => slashPosition # NoSlash
        /\ ~showMenu => activeCategory = NoCategory)
  /\ [][last'.op = "insert" => last'.res # "noTrigger"]_vars

\* C35 witness: a select from the open menu of a category went past the test
\* and inserted the tag, which closed the menu and cleared the anchor.
C35_Witness ==
  /\ last.op = "insert" /\ last.res = "inserted"
  /\ ~showMenu /\ slashPosition = NoSlash /\ activeCategory = NoCategory
  /\ TagCount(children) = 1

====
